---- MODULE Spec2Model ----
(***************************************************************************)
(* Model of src/app.py: the handler of the "run transcription and summary" *)
(* button (lines 74-206).  One job converts the uploaded audio, uploads it *)
(* to temporary storage, waits for the long-running recognition, reduces   *)
(* the recognition results to a speaker-labelled script (transcript_text)  *)
(* and a flat transcript (full_raw_text), asks the summarizer for a        *)
(* summary and finally deletes the temporary object.                       *)
(*                                                                         *)
(* Text is a sequence of atoms.  An atom is a whitespace-free token (a     *)
(* recognized word, a piece of a speaker label) or one whitespace          *)
(* character, " " or "\n".  Python's += on strings is \o on sequences.     *)
(***************************************************************************)
EXTENDS Integers, Sequences, FiniteSets, TLC

VARIABLES
    pc,                  \* position of the handler
    converted_file_data, \* line 77/102: TRUE once the FLAC buffer exists
    blob_name,           \* line 76/116: None or the temporary object's name
    gcs_uri,             \* line 75/121: None or the uploaded object's URI
    recognition,         \* outcome of operation.result(timeout=1800), line 147
    response,            \* response.results: sequence of recognition results
    idx,                 \* number of results the loop of line 158 has consumed
    transcript_text,     \* line 155
    current_speaker,     \* line 156
    full_raw_text,       \* line 157
    shown,               \* documents passed to st.markdown at line 171
    gemini_calls,        \* transcripts embedded in prompts sent at line 185
    delete_attempts,     \* number of blob.delete() calls, line 203
    delete_failed,       \* TRUE when blob.delete() raised
    escaped,             \* TRUE when an exception left the handler (st.stop())
    ui                   \* messages reported to the user

vars == <<pc, converted_file_data, blob_name, gcs_uri, recognition, response,
          idx, transcript_text, current_speaker, full_raw_text, shown,
          gemini_calls, delete_attempts, delete_failed, escaped, ui>>

(***************************************************************************)
(* Bounds of the model.                                                    *)
(***************************************************************************)
\* results in one response, segmenter runs
MaxResults == 3
\* words (WordInfo entries) in one response, segmenter runs
MaxWords == 3
\* results in one response, whole-job runs
JobMaxResults == 2
\* words in one response, whole-job runs
JobMaxWords == 2

\* speaker tags the recognizer may emit (0 "if ever emitted")
Tags == {0, 1, 2}
\* transcript strings of alternatives without WordInfo: "", "x y"
Transcripts == {<<>>, <<"x", " ", "y">>}

None == "None"
Whitespace == {" ", "\n"}

(***************************************************************************)
(* Input data: RecognitionResult, Alternative, WordInfo.                    *)
(***************************************************************************)
\* the n-th word of a response.  The code never inspects word_info.word, so
\* the words of a response are named by their arrival position: a dropped,
\* duplicated or reordered word then shows in the text
WordName(n) == "w" \o ToString(n)

RECURSIVE WordsText(_)
\* the transcript string the recognizer reports beside a word list
WordsText(ws) ==
    IF ws = <<>> THEN <<>>
    ELSE IF Len(ws) = 1 THEN <<ws[1].word>>
    ELSE <<ws[1].word, " ">> \o WordsText(Tail(ws))

\* a result with no alternatives at all
NoAlternatives == [alternatives |-> <<>>]

\* a result whose top alternative has no WordInfo
BlockResult(t) == [alternatives |-> <<[transcript |-> t, words |-> <<>>]>>]

\* a result whose top alternative has word-level speaker tags
WordResult(ws) == [alternatives |-> <<[transcript |-> WordsText(ws), words |-> ws]>>]

\* the results holding exactly k words, n words having arrived before
ResultsWith(k, n) ==
    IF k = 0
    THEN {NoAlternatives} \cup {BlockResult(t) : t \in Transcripts}
    ELSE {WordResult([i \in 1..k |->
                         [word |-> WordName(n + i), speaker_tag |-> tags[i]]]) :
              tags \in [1..k -> Tags]}

RECURSIVE ResponsesFrom(_, _, _)
\* all result sequences of at most r results holding at most w words
ResponsesFrom(r, w, n) ==
    IF r = 0 THEN {<<>>}
    ELSE {<<>>} \cup
         UNION {{<<x>> \o rest : x \in ResultsWith(k, n),
                                 rest \in ResponsesFrom(r - 1, w - k, n + k)} :
                    k \in 0..w}

Responses(r, w) == ResponsesFrom(r, w, 0)

(***************************************************************************)
(* Text helpers: str.strip(), str.split() and the speaker label.           *)
(***************************************************************************)
RECURSIVE LStrip(_)
LStrip(s) ==
    IF s # <<>> /\ Head(s) \in Whitespace THEN LStrip(Tail(s)) ELSE s

RECURSIVE RStrip(_)
RStrip(s) ==
    IF s # <<>> /\ s[Len(s)] \in Whitespace
    THEN RStrip(SubSeq(s, 1, Len(s) - 1)) ELSE s

\* str.strip(): leading and trailing whitespace removed
Strip(s) == RStrip(LStrip(s))

RECURSIVE SplitFrom(_, _)
\* str.split(): the maximal whitespace-free runs of s, cur being the open run
SplitFrom(s, cur) ==
    IF s = <<>> THEN (IF cur = <<>> THEN <<>> ELSE <<cur>>)
    ELSE IF Head(s) \in Whitespace
         THEN (IF cur = <<>> THEN <<>> ELSE <<cur>>) \o SplitFrom(Tail(s), <<>>)
         ELSE SplitFrom(Tail(s), Append(cur, Head(s)))

SplitWords(s) == SplitFrom(s, <<>>)

\* f"**<speaker> {tag}:**\n" (the source's label word is the Japanese for
\* "speaker"; the label holds one space, before the tag)
SpeakerLabel(tag) == <<"**Speaker", " ", ToString(tag), ":**", "\n">>

(***************************************************************************)
(* The segmentation loop, lines 155-170.                                   *)
(***************************************************************************)
\* a sentinel that is also a tag: the smallest one
SentinelZero == CHOOSE t \in Tags : \A u \in Tags : t <= u

\* line 156 (and the test of line 162): "no speaker yet"
Sentinel == -1

\* lines 155-157: the accumulator before the loop
InitialAcc ==
    [transcript_text |-> <<>>, current_speaker |-> Sentinel, full_raw_text |-> <<>>]

\* the loop body with the test of line 161 dropped: every word gets a label
WordStepAlwaysLabel(acc, word_info) ==
    LET break == IF acc.current_speaker # Sentinel THEN <<"\n", "\n">> ELSE <<>>
    IN  [transcript_text |->
             acc.transcript_text \o break \o SpeakerLabel(word_info.speaker_tag)
                 \o <<word_info.word, " ">>,
         current_speaker |-> word_info.speaker_tag,
         full_raw_text |-> acc.full_raw_text \o <<word_info.word, " ">>]

\* the loop body with the separating space of line 167 dropped
WordStepNoSpace(acc, word_info) ==
    LET change == word_info.speaker_tag # acc.current_speaker
        break  == IF change /\ acc.current_speaker # Sentinel
                  THEN <<"\n", "\n">> ELSE <<>>
        label  == IF change THEN SpeakerLabel(word_info.speaker_tag) ELSE <<>>
    IN  [transcript_text |->
             acc.transcript_text \o break \o label \o <<word_info.word, " ">>,
         current_speaker |->
             IF change THEN word_info.speaker_tag ELSE acc.current_speaker,
         full_raw_text |-> acc.full_raw_text \o <<word_info.word>>]

\* the loop body with the assignment of line 165 made once only: the first
\* speaker stays the current one
WordStepKeepSpeaker(acc, word_info) ==
    LET change == word_info.speaker_tag # acc.current_speaker
        break  == IF change /\ acc.current_speaker # Sentinel
                  THEN <<"\n", "\n">> ELSE <<>>
        label  == IF change THEN SpeakerLabel(word_info.speaker_tag) ELSE <<>>
    IN  [transcript_text |->
             acc.transcript_text \o break \o label \o <<word_info.word, " ">>,
         current_speaker |->
             IF acc.current_speaker = Sentinel
             THEN word_info.speaker_tag ELSE acc.current_speaker,
         full_raw_text |-> acc.full_raw_text \o <<word_info.word, " ">>]

\* lines 161-167: the body of the loop over word_info
WordStep(acc, word_info) ==
    LET change == word_info.speaker_tag # acc.current_speaker
        break  == IF change /\ acc.current_speaker # Sentinel
                  THEN <<"\n", "\n">> ELSE <<>>
        label  == IF change THEN SpeakerLabel(word_info.speaker_tag) ELSE <<>>
    IN  [transcript_text |->
             acc.transcript_text \o break \o label \o <<word_info.word, " ">>,
         current_speaker |->
             IF change THEN word_info.speaker_tag ELSE acc.current_speaker,
         full_raw_text |-> acc.full_raw_text \o <<word_info.word, " ">>]

RECURSIVE WordLoop(_, _)
\* line 160: for word_info in result.alternatives[0].words
WordLoop(acc, ws) ==
    IF ws = <<>> THEN acc ELSE WordLoop(WordStep(acc, Head(ws)), Tail(ws))

\* lines 169-170: the branch of a top alternative without words
BlockStep(acc, alternative) ==
    [transcript_text |-> acc.transcript_text \o alternative.transcript \o <<"\n">>,
     current_speaker |-> acc.current_speaker,
     full_raw_text   |-> acc.full_raw_text \o alternative.transcript \o <<"\n">>]

\* lines 159-170: the body of the loop over response.results
ResultStep(acc, result) ==
    IF result.alternatives # <<>> /\ result.alternatives[1].words # <<>>
    THEN WordLoop(acc, result.alternatives[1].words)
    ELSE IF result.alternatives # <<>>
         THEN BlockStep(acc, result.alternatives[1])
         ELSE acc

RECURSIVE ResultLoop(_, _)
\* lines 155-170: the whole reduction of a result sequence
ResultLoop(acc, results) ==
    IF results = <<>> THEN acc
    ELSE ResultLoop(ResultStep(acc, Head(results)), Tail(results))

Segment(results) == ResultLoop(InitialAcc, results)

(***************************************************************************)
(* The handler's control flow, lines 74-206.                               *)
(***************************************************************************)
\* line 116: the temporary object's name (timestamp and base name abstracted)
BlobName == "audio_uploads/blob.flac"

\* line 121
GcsUri == "gs://bucket/audio_uploads/blob.flac"

\* lines 27-63: every failure of the client set-up ends in st.stop(), so the
\* handler only runs with can_summarize = True and the three clients set
can_summarize == TRUE

\* the test of line 150 never taken
NoResultsNever(results) == FALSE

\* line 150: if not response.results
NoResults(results) == results = <<>>

\* a timeout or failure swallowed: the handler goes on to line 150
AfterRecognizeProceed(outcome) == "check_results"

\* lines 147 and 193: operation.result() returns the response or raises
\* (timeout, failed job); an exception leaves the try block for line 193
AfterRecognize(outcome) == IF outcome = "ok" THEN "check_results" ELSE "except"

\* line 174: if can_summarize and full_raw_text and gemini_model
SummarizeGuard(text) == can_summarize /\ text # <<>>

\* the cleanup keyed on the uploaded object's URI instead of its name
CleanupIfUploaded(name, uri) == uri # None

\* line 198: if blob_name and storage_client
CleanupNeeded(name, uri) == name # None

\* the state in which the button's handler starts, lines 75-78
Init ==
    /\ pc = "convert"
    /\ converted_file_data = FALSE
    /\ blob_name = None
    /\ gcs_uri = None
    /\ recognition = None
    /\ response = <<>>
    /\ idx = 0
    /\ transcript_text = <<>>
    /\ current_speaker = Sentinel
    /\ full_raw_text = <<>>
    /\ shown = <<>>
    /\ gemini_calls = <<>>
    /\ delete_attempts = 0
    /\ delete_failed = FALSE
    /\ escaped = FALSE
    /\ ui = {}

\* lines 81-103: Step 1, the conversion succeeds
ConvertOk ==
    /\ pc = "convert"
    /\ converted_file_data' = TRUE
    /\ pc' = "name_blob"
    /\ UNCHANGED <<blob_name, gcs_uri, recognition, response, idx,
                   transcript_text, current_speaker, full_raw_text, shown,
                   gemini_calls, delete_attempts, delete_failed, escaped, ui>>

\* lines 105-108: the conversion fails; st.stop() raises past line 193 and the
\* finally block runs with blob_name still None
ConvertFail ==
    /\ pc = "convert"
    /\ ui' = ui \cup {"convert_error"}
    /\ escaped' = TRUE
    /\ pc' = "finally"
    /\ UNCHANGED <<converted_file_data, blob_name, gcs_uri, recognition,
                   response, idx, transcript_text, current_speaker,
                   full_raw_text, shown, gemini_calls, delete_attempts,
                   delete_failed>>

\* lines 111-117: the temporary object is named
NameBlob ==
    /\ pc = "name_blob"
    /\ converted_file_data
    /\ blob_name' = BlobName
    /\ pc' = "upload"
    /\ UNCHANGED <<converted_file_data, gcs_uri, recognition, response, idx,
                   transcript_text, current_speaker, full_raw_text, shown,
                   gemini_calls, delete_attempts, delete_failed, escaped, ui>>

\* lines 120-122: the upload succeeds
UploadOk ==
    /\ pc = "upload"
    /\ gcs_uri' = GcsUri
    /\ pc' = "recognize"
    /\ UNCHANGED <<converted_file_data, blob_name, recognition, response, idx,
                   transcript_text, current_speaker, full_raw_text, shown,
                   gemini_calls, delete_attempts, delete_failed, escaped, ui>>

\* line 120 raises: control leaves the try block for line 193
UploadFail ==
    /\ pc = "upload"
    /\ pc' = "except"
    /\ UNCHANGED <<converted_file_data, blob_name, gcs_uri, recognition,
                   response, idx, transcript_text, current_speaker,
                   full_raw_text, shown, gemini_calls, delete_attempts,
                   delete_failed, escaped, ui>>

\* lines 125-148: Step 3; the job completes with a result list, times out
\* or fails
Recognize ==
    /\ pc = "recognize"
    /\ gcs_uri # None
    /\ \E outcome \in {"ok", "timeout", "error"} :
         /\ recognition' = outcome
         /\ pc' = AfterRecognize(outcome)
         /\ IF outcome = "ok"
            THEN response' \in Responses(JobMaxResults, JobMaxWords)
            ELSE response' = response
    /\ UNCHANGED <<converted_file_data, blob_name, gcs_uri, idx,
                   transcript_text, current_speaker, full_raw_text, shown,
                   gemini_calls, delete_attempts, delete_failed, escaped, ui>>

\* lines 150-151: nothing was recognized
WarnNoResults ==
    /\ pc = "check_results"
    /\ NoResults(response)
    /\ ui' = ui \cup {"nothing_recognized"}
    /\ pc' = "finally"
    /\ UNCHANGED <<converted_file_data, blob_name, gcs_uri, recognition,
                   response, idx, transcript_text, current_speaker,
                   full_raw_text, shown, gemini_calls, delete_attempts,
                   delete_failed, escaped>>

\* lines 152-157: Step 4 starts
StartSegment ==
    /\ pc = "check_results"
    /\ ~NoResults(response)
    /\ transcript_text' = InitialAcc.transcript_text
    /\ current_speaker' = InitialAcc.current_speaker
    /\ full_raw_text' = InitialAcc.full_raw_text
    /\ idx' = 0
    /\ pc' = "segment"
    /\ UNCHANGED <<converted_file_data, blob_name, gcs_uri, recognition,
                   response, shown, gemini_calls, delete_attempts,
                   delete_failed, escaped, ui>>

\* lines 158-170: one iteration of the loop over response.results
SegmentResult ==
    /\ pc = "segment"
    /\ idx < Len(response)
    /\ LET acc == ResultStep([transcript_text |-> transcript_text,
                              current_speaker |-> current_speaker,
                              full_raw_text   |-> full_raw_text],
                             response[idx + 1])
       IN  /\ transcript_text' = acc.transcript_text
           /\ current_speaker' = acc.current_speaker
           /\ full_raw_text' = acc.full_raw_text
    /\ idx' = idx + 1
    /\ UNCHANGED <<pc, converted_file_data, blob_name, gcs_uri, recognition,
                   response, shown, gemini_calls, delete_attempts,
                   delete_failed, escaped, ui>>

\* line 171: st.markdown(transcript_text.strip())
Render ==
    /\ pc = "segment"
    /\ idx = Len(response)
    /\ shown' = Append(shown, Strip(transcript_text))
    /\ pc' = "summarize"
    /\ UNCHANGED <<converted_file_data, blob_name, gcs_uri, recognition,
                   response, idx, transcript_text, current_speaker,
                   full_raw_text, gemini_calls, delete_attempts,
                   delete_failed, escaped, ui>>

\* lines 174-189: Step 5; the prompt embeds full_raw_text.strip(); a failure
\* of the call is caught at line 188
Summarize ==
    /\ pc = "summarize"
    /\ SummarizeGuard(full_raw_text)
    /\ gemini_calls' = Append(gemini_calls, Strip(full_raw_text))
    /\ \E ok \in BOOLEAN :
         ui' = ui \cup {IF ok THEN "summary_done" ELSE "summary_error"}
    /\ pc' = "finally"
    /\ UNCHANGED <<converted_file_data, blob_name, gcs_uri, recognition,
                   response, idx, transcript_text, current_speaker,
                   full_raw_text, shown, delete_attempts, delete_failed,
                   escaped>>

\* line 174 is false (line 190 is false too, can_summarize being True)
SkipSummarize ==
    /\ pc = "summarize"
    /\ ~SummarizeGuard(full_raw_text)
    /\ pc' = "finally"
    /\ UNCHANGED <<converted_file_data, blob_name, gcs_uri, recognition,
                   response, idx, transcript_text, current_speaker,
                   full_raw_text, shown, gemini_calls, delete_attempts,
                   delete_failed, escaped, ui>>

\* lines 193-194: except Exception
Except ==
    /\ pc = "except"
    /\ ui' = ui \cup {"unexpected_error"}
    /\ pc' = "finally"
    /\ UNCHANGED <<converted_file_data, blob_name, gcs_uri, recognition,
                   response, idx, transcript_text, current_speaker,
                   full_raw_text, shown, gemini_calls, delete_attempts,
                   delete_failed, escaped>>

\* lines 196-206: Step 6; the deletion is attempted and its failure is caught
\* and reported as a warning
Cleanup ==
    /\ pc = "finally"
    /\ CleanupNeeded(blob_name, gcs_uri)
    /\ delete_attempts' = delete_attempts + 1
    /\ \E ok \in BOOLEAN :
         /\ delete_failed' = ~ok
         /\ ui' = IF ok THEN ui ELSE ui \cup {"delete_warning"}
    /\ pc' = "done"
    /\ UNCHANGED <<converted_file_data, blob_name, gcs_uri, recognition,
                   response, idx, transcript_text, current_speaker,
                   full_raw_text, shown, gemini_calls, escaped>>

\* line 198 is false: nothing to delete
SkipCleanup ==
    /\ pc = "finally"
    /\ ~CleanupNeeded(blob_name, gcs_uri)
    /\ pc' = "done"
    /\ UNCHANGED <<converted_file_data, blob_name, gcs_uri, recognition,
                   response, idx, transcript_text, current_speaker,
                   full_raw_text, shown, gemini_calls, delete_attempts,
                   delete_failed, escaped, ui>>

Next ==
    \/ ConvertOk
    \/ ConvertFail
    \/ NameBlob
    \/ UploadOk
    \/ UploadFail
    \/ Recognize
    \/ WarnNoResults
    \/ StartSegment
    \/ SegmentResult
    \/ Render
    \/ Summarize
    \/ SkipSummarize
    \/ Except
    \/ Cleanup
    \/ SkipCleanup

\* one job, from the button press to the end of the finally block
Spec == Init /\ [][Next]_vars

(***************************************************************************)
(* The segmenter alone: the handler at line 155 with a non-empty result    *)
(* list, drawn from a larger set of inputs.                                *)
(***************************************************************************)
SegInit ==
    /\ pc = "check_results"
    /\ converted_file_data = TRUE
    /\ blob_name = BlobName
    /\ gcs_uri = GcsUri
    /\ recognition = "ok"
    /\ response \in Responses(MaxResults, MaxWords) \ {<<>>}
    /\ idx = 0
    /\ transcript_text = <<>>
    /\ current_speaker = Sentinel
    /\ full_raw_text = <<>>
    /\ shown = <<>>
    /\ gemini_calls = <<>>
    /\ delete_attempts = 0
    /\ delete_failed = FALSE
    /\ escaped = FALSE
    /\ ui = {}

SegNext ==
    \/ StartSegment
    \/ SegmentResult
    \/ Render

SegSpec == SegInit /\ [][SegNext]_vars

(***************************************************************************)
(* Reference notions used to state the properties.                         *)
(***************************************************************************)
\* the results the loop has consumed so far
Processed == SubSeq(response, 1, idx)

\* the accumulator the loop held before its latest iteration
Before == Segment(SubSeq(response, 1, idx - 1))

HasWords(result) ==
    result.alternatives # <<>> /\ result.alternatives[1].words # <<>>

IsBlock(result) ==
    result.alternatives # <<>> /\ result.alternatives[1].words = <<>>

\* neither transcript text nor words, or no alternative at all
Malformed(result) ==
    \/ result.alternatives = <<>>
    \/ /\ result.alternatives[1].words = <<>>
       /\ result.alternatives[1].transcript = <<>>

RECURSIVE TagStream(_)
\* the speaker tags of all words of the results, in arrival order
TagStream(results) ==
    IF results = <<>> THEN <<>>
    ELSE (IF HasWords(Head(results))
          THEN [i \in 1..Len(Head(results).alternatives[1].words) |->
                   Head(results).alternatives[1].words[i].speaker_tag]
          ELSE <<>>) \o TagStream(Tail(results))

RECURSIVE Collapse(_)
\* consecutive duplicates removed
Collapse(s) ==
    IF Len(s) <= 1 THEN s
    ELSE IF s[1] = s[2] THEN Collapse(Tail(s))
         ELSE <<s[1]>> \o Collapse(Tail(s))

RECURSIVE Labels(_)
\* the tags of the speaker labels of a document, in order
Labels(doc) ==
    IF doc = <<>> THEN <<>>
    ELSE IF Head(doc) = "**Speaker"
         THEN <<doc[3]>> \o Labels(Tail(doc))
         ELSE Labels(Tail(doc))

LabelPositions(doc) == {p \in 1..Len(doc) : doc[p] = "**Speaker"}

RECURSIVE ExpectedWords(_)
\* the recognized words of the results, each once, in arrival order
ExpectedWords(results) ==
    IF results = <<>> THEN <<>>
    ELSE (IF HasWords(Head(results))
          THEN [i \in 1..Len(Head(results).alternatives[1].words) |->
                   <<Head(results).alternatives[1].words[i].word>>]
          ELSE IF IsBlock(Head(results))
               THEN SplitWords(Head(results).alternatives[1].transcript)
               ELSE <<>>) \o ExpectedWords(Tail(results))

RECURSIVE WordCount(_)
\* WordInfo counts of the results with words plus the word counts of the
\* transcript strings of the results without
WordCount(results) ==
    IF results = <<>> THEN 0
    ELSE (IF HasWords(Head(results))
          THEN Len(Head(results).alternatives[1].words)
          ELSE IF IsBlock(Head(results))
               THEN Len(SplitWords(Head(results).alternatives[1].transcript))
               ELSE 0) + WordCount(Tail(results))

RECURSIVE WellFormed(_)
\* the results with the malformed ones removed
WellFormed(results) ==
    IF results = <<>> THEN <<>>
    ELSE (IF Malformed(Head(results)) THEN <<>> ELSE <<Head(results)>>)
             \o WellFormed(Tail(results))

\* the flat transcript as the summarizer would receive it
FlatTranscript == Strip(full_raw_text)

\* the script as it is displayed
Document == Strip(transcript_text)

InLoop == pc \in {"segment", "summarize"}

(***************************************************************************)
(* Properties.                                                             *)
(***************************************************************************)
\* C1: the document never holds two consecutive speaker labels with the same
\* tag, and a result whose first word continues the speaker of the previous
\* words opens no new segment: the text it adds starts with the word itself.
C1_NoAdjacentSameSpeaker ==
    InLoop =>
        /\ \A i \in 1..(Len(Labels(Document)) - 1) :
               Labels(Document)[i] # Labels(Document)[i + 1]
        /\ (/\ idx >= 1
            /\ HasWords(response[idx])
            /\ TagStream(SubSeq(response, 1, idx - 1)) # <<>>
            /\ Before.current_speaker =
                   response[idx].alternatives[1].words[1].speaker_tag)
           => /\ Len(transcript_text) > Len(Before.transcript_text)
              /\ transcript_text[Len(Before.transcript_text) + 1] =
                     response[idx].alternatives[1].words[1].word

\* a run of one speaker that continues across a result boundary was processed
C1_Witness ==
    /\ pc = "segment"
    /\ idx = 2
    /\ HasWords(response[1])
    /\ HasWords(response[2])
    /\ TagStream(Processed) = <<1, 1>>
    /\ Labels(Document) = <<"1">>

\* C2: the flat transcript holds exactly the recognized words of the
\* consumed results, each once and in arrival order, and their number is the
\* sum of the WordInfo counts and of the transcripts' word counts.
C2_WordFaithful ==
    InLoop =>
        /\ SplitWords(FlatTranscript) = ExpectedWords(Processed)
        /\ Len(SplitWords(FlatTranscript)) = WordCount(Processed)

\* words, a two-word transcript and words again were reduced
C2_Witness ==
    /\ pc = "summarize"
    /\ Len(response) = 3
    /\ HasWords(response[1])
    /\ IsBlock(response[2])
    /\ HasWords(response[3])
    /\ Len(SplitWords(FlatTranscript)) = 4

\* C3: the labels of the document are, in order, the word tags in arrival
\* order with consecutive duplicates collapsed; a tag that recurs after
\* another one gets a new label.
C3_LabelsAreCollapsedTags ==
    InLoop =>
        /\ Len(Labels(Document)) = Len(Collapse(TagStream(Processed)))
        /\ \A i \in 1..Len(Labels(Document)) :
               Labels(Document)[i] = ToString(Collapse(TagStream(Processed))[i])

\* one result with tags 1, 2, 1 gave three segments
C3_Witness ==
    /\ pc = "summarize"
    /\ Len(response) = 1
    /\ TagStream(response) = <<1, 2, 1>>
    /\ Labels(Document) = <<"1", "2", "1">>
    /\ Document = SpeakerLabel(1) \o <<"w1", " ", "\n", "\n">>
                     \o SpeakerLabel(2) \o <<"w2", " ", "\n", "\n">>
                     \o SpeakerLabel(1) \o <<"w3">>

\* C4: the document and the flat transcript built from a result sequence are
\* those built from the sequence with its malformed results removed.
C4_MalformedSkipped ==
    pc = "summarize" =>
        /\ Document = Strip(Segment(WellFormed(response)).transcript_text)
        /\ FlatTranscript = Strip(Segment(WellFormed(response)).full_raw_text)

\* C5: a result without WordInfo is appended to both texts as its transcript
\* followed by a line break, emits no label, keeps current_speaker, and in
\* the document a line break separates it from the words of the segment
\* before it.
C5_BlockSeparated ==
    (pc = "segment" /\ idx >= 1 /\ IsBlock(response[idx])) =>
        LET t == response[idx].alternatives[1].transcript
            last == Len(transcript_text) - Len(t) - 1
        IN  /\ full_raw_text = Before.full_raw_text \o t \o <<"\n">>
            /\ SubSeq(transcript_text, last + 1, Len(transcript_text))
                   = t \o <<"\n">>
            /\ Labels(transcript_text) = Labels(Before.transcript_text)
            /\ current_speaker = Before.current_speaker
            /\ (idx >= 2 /\ HasWords(response[idx - 1]) /\ t # <<>>)
                   => transcript_text[last] = "\n"

\* C6: with an empty result list the job ends with no document, no flat
\* transcript and no summarization call, having reported "nothing
\* recognized" and no error.
C6_EmptyInput ==
    (pc = "done" /\ recognition = "ok" /\ response = <<>>) =>
        /\ transcript_text = <<>>
        /\ full_raw_text = <<>>
        /\ shown = <<>>
        /\ gemini_calls = <<>>
        /\ "nothing_recognized" \in ui
        /\ "unexpected_error" \notin ui
        /\ ~escaped

\* a job whose recognition returned no results has ended
C6_Witness ==
    /\ pc = "done"
    /\ recognition = "ok"
    /\ response = <<>>
    /\ "nothing_recognized" \in ui

\* C7: a job that named its temporary object ends only after one deletion
\* attempt, whatever failed before; a failed deletion is a warning and leaves
\* the handler normally.
C7_CleanupAttempted ==
    pc = "done" =>
        /\ blob_name # None => delete_attempts = 1
        /\ delete_failed => ("delete_warning" \in ui /\ ~escaped)

\* the recognition timed out, the deletion was attempted and failed
C7_Witness ==
    /\ pc = "done"
    /\ blob_name # None
    /\ recognition = "timeout"
    /\ delete_attempts = 1
    /\ delete_failed

\* C8: when the recognition times out or fails, no result is ever handled,
\* no document is shown and nothing is summarized; the loop runs only on a
\* received result list.
C8_NoSegmentWithoutResults ==
    /\ recognition \in {"timeout", "error"} =>
           /\ pc \notin {"check_results", "segment", "summarize"}
           /\ shown = <<>>
           /\ gemini_calls = <<>>
           /\ transcript_text = <<>>
           /\ full_raw_text = <<>>
    /\ pc \in {"segment", "summarize"} => recognition = "ok"

\* a timed-out job has ended
C8_Witness ==
    /\ pc = "done"
    /\ recognition = "timeout"
    /\ "unexpected_error" \in ui

\* C9: the sentinel is no tag; a stream that starts with tag 0 starts with a
\* label for speaker 0, every run of tag 0 has its label, and every label but
\* the first follows a blank-line break.
C9_TagZeroIsValid ==
    /\ Sentinel \notin Tags
    /\ InLoop =>
        LET ts == TagStream(Processed)
            L  == Labels(transcript_text)
            P  == LabelPositions(transcript_text)
        IN  /\ (ts # <<>> /\ ts[1] = 0) => (L # <<>> /\ L[1] = "0")
            /\ Cardinality({i \in 1..Len(L) : L[i] = "0"}) =
                   Cardinality({i \in 1..Len(ts) :
                                    ts[i] = 0 /\ (i = 1 \/ ts[i - 1] # 0)})
            /\ \A p \in P :
                   (\E q \in P : q < p) =>
                       (transcript_text[p - 1] = "\n"
                            /\ transcript_text[p - 2] = "\n")

\* speaker 0 spoke first, then speaker 1, then speaker 0 again
C9_Witness ==
    /\ pc = "summarize"
    /\ TagStream(response) = <<0, 1, 0>>
    /\ Labels(Document) = <<"0", "1", "0">>

\* C10: the summarizer is called at most once, and never with an empty
\* transcript in the prompt.
C10_SummarizeOnlyText ==
    /\ Len(gemini_calls) <= 1
    /\ \A i \in 1..Len(gemini_calls) : gemini_calls[i] # <<>>

====
